---- MODULE Spec2Model ----
(***************************************************************************)
(* Attendance synchronisation of the zk-api Django project.                *)
(*                                                                         *)
(* Storage (ZKDevice, DeviceSyncLog, Employee, AttendanceRecord), the sync *)
(* passes of the three service variants (ZKAPIService, ZKDeviceService,    *)
(* TempDLL/tasks.py), their callers (view, Celery tasks, management        *)
(* command), the administrative device update and the attendance POST.     *)
(*                                                                         *)
(* Values of raw and canonical record fields are integers: NoneVal is      *)
(* Python's None (dict.get of an absent key), 0 is a present but empty     *)
(* value ("" or 0), a positive number is a non-empty value.  Times are     *)
(* integers; error messages are strings, "" being the empty message.       *)
(***************************************************************************)
EXTENDS Integers, Sequences, FiniteSets, Bags, TLC

\* ------------------------------------------------------------- bounds
MaxTime == 2
MaxRuns == 2
MaxBatch == 2
MaxAdmin == 1
MaxPosts == 1
MaxOps == 2

\* ---------------------------------------------------------- constants
NoneVal == -1
DefaultPort == 4370
\* Time is counted in units of two hours.
LookbackApi == 84
LookbackTemp == 12
RetryCutoff == 1
FullHistoryStart == -1000
MaxRetries == 3
TotalSteps == 10

Dev == {1, 2}
\* The processes that execute passes (web workers, Celery workers, the command).
Run == {1, 2}
\* The passes, numbered as they start.
Pass == 1..MaxRuns
OpId == 1..MaxOps
Impl == {"api", "dll", "temp"}

\* ------------------------------------------------- python dict helpers
Truthy(v) == v # NoneVal /\ v # 0
Get(m, k) == IF k \in DOMAIN m THEN m[k] ELSE NoneVal
Or(a, b) == IF Truthy(a) THEN a ELSE b

\* ------------------------------------------------------ record adapter
\* A variant of the adapter that knows the PascalCase punch-time name only.
AdaptPascalOnly(r, devId) ==
    [EmployeeID |-> Or(Get(r, "EmployeeID"), Or(Get(r, "EmployeeId"),
                       Or(Get(r, "employee_id"), Get(r, "emp_code")))),
     PunchTime |-> Get(r, "PunchTime"),
     DeviceID |-> Or(Get(r, "DeviceID"), Or(Get(r, "device_id"), devId)),
     VerificationMode |-> Or(Get(r, "VerificationMode"), Or(Get(r, "verify_type"), 0)),
     Status |-> Or(Get(r, "Status"), Or(Get(r, "punch_state"), 0))]

\* dict.get(k, d)
GetD(m, k, d) == IF k \in DOMAIN m THEN m[k] ELSE d

\* get_employees: one raw employee to its canonical form
AdaptEmployee(e) ==
    [pin |-> Or(Get(e, "EmployeeId"), Or(Get(e, "employee_id"), Or(Get(e, "EmployeeID"),
                Or(Get(e, "pin"), Get(e, "emp_code"))))),
     name |-> Or(Get(e, "Name"), Or(Get(e, "name"), GetD(e, "full_name", 0))),
     department |-> Or(Get(e, "Department"), GetD(e, "department", 0)),
     position |-> Or(Get(e, "Position"), GetD(e, "position", 0))]

\* A variant of the adapter that tries employee_id before EmployeeId.
AdaptSnakeFirst(r, devId) ==
    [EmployeeID |-> Or(Get(r, "EmployeeID"), Or(Get(r, "employee_id"),
                       Or(Get(r, "EmployeeId"), Get(r, "emp_code")))),
     PunchTime |-> Or(Get(r, "PunchTime"), Get(r, "punch_time")),
     DeviceID |-> Or(Get(r, "DeviceID"), Or(Get(r, "device_id"), devId)),
     VerificationMode |-> Or(Get(r, "VerificationMode"), Or(Get(r, "verify_type"), 0)),
     Status |-> Or(Get(r, "Status"), Or(Get(r, "punch_state"), 0))]

\* get_attendance_records: one raw record to its canonical form
AdaptAttendance(r, devId) ==
    [EmployeeID |-> Or(Get(r, "EmployeeID"), Or(Get(r, "EmployeeId"),
                       Or(Get(r, "employee_id"), Get(r, "emp_code")))),
     PunchTime |-> Or(Get(r, "PunchTime"), Get(r, "punch_time")),
     DeviceID |-> Or(Get(r, "DeviceID"), Or(Get(r, "device_id"), devId)),
     VerificationMode |-> Or(Get(r, "VerificationMode"), Or(Get(r, "verify_type"), 0)),
     Status |-> Or(Get(r, "Status"), Or(Get(r, "punch_state"), 0))]

\* -------------------------------------------------- transport responses
\* Raw attendance records a device may hand back.
RawPool ==
    { [EmployeeID |-> 1, PunchTime |-> 1],
      [EmployeeID |-> 2, PunchTime |-> 1],
      [EmployeeID |-> 1] }

RECURSIVE SeqsUpTo(_, _)
SeqsUpTo(S, n) ==
    IF n = 0 THEN {<<>>}
    ELSE LET shorter == SeqsUpTo(S, n - 1)
         IN shorter \cup {Append(s, x) : s \in {t \in shorter : Len(t) = n - 1}, x \in S}

\* What the wrapper service answers to /fetch-logs.
Responses ==
    { [kind |-> "neterr"], [kind |-> "nonobject"],
      [kind |-> "json", success |-> FALSE],
      [kind |-> "json", success |-> FALSE, error |-> ""] }
    \cup { [kind |-> "json", success |-> TRUE, records |-> b] : b \in SeqsUpTo(RawPool, MaxBatch) }

\* What the wrapper service answers to /fetch-users.
EmpResponses ==
    { [kind |-> "neterr"],
      [kind |-> "json", success |-> FALSE, error |-> ""],
      [kind |-> "json", success |-> TRUE, employees |-> <<[pin |-> 2]>>] }

\* ---------------------------------------------------------------- state
VARIABLES
    probe,       \* the raw records handed to the record adapter, and what it made of them
    impl,        \* the service variant this deployment runs
    now,         \* the last reading of timezone.now()
    device,      \* ZKDevice rows, by id
    employees,   \* employee_id of every stored Employee
    emprow,      \* name, department and position of every stored Employee
    attendance,  \* AttendanceRecord rows (a bag: the table has its own pk)
    synclog,     \* DeviceSyncLog rows, grouped by the pass that saved them
    run,         \* the pass each process executes, or executed last
    nrun,        \* passes started so far
    attdata,     \* AttendanceData rows (TempDLL/tasks.py)
    batch,       \* the run over all active devices, if one is under way
    nadmin,      \* device updates posted so far
    nposts,      \* attendance POST requests so far
    task,        \* sync_device_attendance_task: its messages at the broker, its executions
    operation_status,  \* the wrappers' record of their async operations, by operation id
    asyncop      \* the background tasks of the async operations, and the last status answer

vars == <<probe, impl, now, device, employees, emprow, attendance, synclog, run, nrun, attdata, batch, nadmin, nposts, task, operation_status, asyncop>>

NoProbe == [a |-> <<>>, b |-> <<>>, device_id |-> 0, adapted |-> <<>>, people |-> <<>>]

NoCopy == [name |-> "", ip_address |-> 0, port |-> 0, is_active |-> FALSE, last_sync |-> NoneVal]

IdleRun ==
    [pc |-> "idle", id |-> 0, kind |-> "none", dev |-> 0, copy |-> NoCopy,
     by |-> "none", end_time |-> NoneVal, start_time |-> NoneVal,
     records |-> <<>>, synced_count |-> 0, before |-> 0, skipped |-> {},
     transport |-> "none", outcome |-> "none", result |-> <<0, "">>]

\* A pass that has returned: its locals are gone, its outcome is kept.
\* (before and skipped are not variables of the code: the number of stored
\* records when the loop began, and the reasons for which the loop has left
\* records out.)
Returned(rn, outcome, result) ==
    [IdleRun EXCEPT !.pc = "done", !.id = rn.id, !.kind = rn.kind, !.dev = rn.dev, !.by = rn.by,
                    !.transport = rn.transport, !.outcome = outcome, !.result = result,
                    !.skipped = rn.skipped]

NoBatch ==
    [pc |-> "idle", kind |-> "none", queue |-> <<>>, copies |-> <<>>,
     total |-> 0, cur |-> 0, report |-> <<>>, phase |-> "none"]

\* No message of the task has been sent.
NoTask == [state |-> "none", dev |-> 0, msgs |-> <<>>, cur |-> NoneVal, executions |-> 0, scheduled |-> 0]

Stores ==
    /\ now = 1
    /\ device = [d \in Dev |->
                    [name |-> "clock", ip_address |-> d, port |-> DefaultPort,
                     is_active |-> TRUE, last_sync |-> IF d = 1 THEN NoneVal ELSE 0]]
    /\ employees = {1}
    /\ emprow = [e \in {1} |-> [name |-> 1, department |-> 1, position |-> 1]]
    /\ attendance = EmptyBag
    /\ synclog = [p \in Pass |-> <<>>]
    /\ run = [r \in Run |-> IdleRun]
    /\ nrun = 0
    /\ attdata = {}
    /\ batch = NoBatch
    /\ nadmin = 0
    /\ nposts = 0
    /\ task = NoTask
    /\ operation_status = [id \in OpId |-> [status |-> "absent", progress |-> 0, result |-> "absent"]]
    /\ asyncop = [n |-> 0,
                  op |-> [id \in OpId |-> [pc |-> "none", wrapper |-> "none", endpoint |-> "none",
                                          step |-> 0, connected |-> FALSE, success |-> FALSE]],
                  answer |-> [id |-> 0, status |-> "none", progress |-> 0, result |-> "absent"]]

Init ==
    /\ probe = NoProbe
    /\ impl \in Impl
    /\ Stores

InFlight == {r \in Run : run[r].pc \notin {"idle", "done"}}

\* A process can take a new pass when it executes none; the process that
\* executes a run over all devices is in the loop until the pass it called
\* has handed its result back.
Free(r) == run[r].pc \in {"idle", "done"} /\ batch.cur # r /\ nrun < MaxRuns

\* ---------------------------------------------------------- the clock
\* timezone.now(): the clock is read, and has not gone back since the last
\* reading.
ReadClock == now' \in now..MaxTime

\* ------------------------------------------------------ storage helpers
\* A variant of the lookup that finds nothing.
NoRecordExists(att, emp, punch, ip) == FALSE

\* AttendanceRecord.objects.filter(employee__employee_id=, punch_time=, device_ip=).exists()
RecordExists(att, emp, punch, ip) ==
    \E row \in BagToSet(att) :
        row.employee = emp /\ row.punch_time = punch /\ row.device_ip = ip

\* unique_together = ['employee', 'punch_time', 'device_ip']
UniqueViolation(att, row) == RecordExists(att, row.employee, row.punch_time, row.device_ip)

\* A variant of the table without its unique constraint.
CreateUnchecked(att, row) == TRUE

\* AttendanceRecord.objects.create(...): the row is inserted unless the
\* database rejects it (IntegrityError), which leaves the table as it was.
CreateOk(att, row) == ~UniqueViolation(att, row)
Insert(att, row) == att (+) SetToBag({row})

LogRow(d, type, synced, success, err, completed) ==
    [device |-> d, sync_type |-> type, records_synced |-> synced,
     success |-> success, error_message |-> err, completed |-> completed]

\* ------------------------------------------- attendance pass: the start
\* A variant of the window that always starts the default lookback ago.
WindowFromLookback(copy, end, fa) ==
    IF fa THEN FullHistoryStart ELSE end - LookbackApi

\* The caller reads the device row (ZKDevice.objects.get), the pass builds
\* its log object, captures end_time and computes the window start.
WindowStart(copy, end, fa) ==
    IF fa THEN FullHistoryStart
    ELSE IF copy.last_sync # NoneVal THEN copy.last_sync ELSE end - LookbackApi

\* sync_attendance(device, fetch_all_from_225) entered with the caller's device object
Entered(id, d, copy, fa, end, by) ==
    [IdleRun EXCEPT !.pc = "fetch", !.id = id, !.kind = "attendance", !.dev = d, !.by = by,
                    !.copy = copy, !.end_time = end,
                    !.start_time = WindowStart(copy, end, fa)]

\* views.sync_device_attendance, sync_device_attendance_task and
\* sync_devices --device-id: the device is read, then synced.
StartAttendance(r, d, fa) ==
    /\ impl \in {"api", "dll"}
    /\ Free(r)
    /\ fa => impl = "api"
    /\ ReadClock
    /\ run' = [run EXCEPT ![r] = Entered(nrun + 1, d, device[d], fa, now', "direct")]
    /\ nrun' = nrun + 1
    /\ UNCHANGED <<probe, impl, device, employees, emprow, attendance, synclog, attdata, batch, nadmin, nposts, task, operation_status, asyncop>>

\* --------------------------------------------- attendance pass: the fetch
PayloadError(resp, default) == IF "error" \in DOMAIN resp THEN resp.error ELSE default

\* ZKAPIService.get_attendance_records: (out, records, error)
ApiFetch(resp, devId) ==
    IF resp.kind = "neterr" THEN [out |-> "return", records |-> <<>>, error |-> "API request failed"]
    ELSE IF resp.kind = "nonobject" THEN [out |-> "raise", records |-> <<>>, error |-> "AttributeError"]
    ELSE IF ~resp.success
         THEN [out |-> "return", records |-> <<>>,
               error |-> PayloadError(resp, "Unknown error from wrapper API")]
    ELSE [out |-> "return",
          records |-> [k \in 1..Len(resp.records) |-> AdaptAttendance(resp.records[k], devId)],
          error |-> ""]

\* ZKDeviceService.get_attendance_records: every exception becomes an error string
DllFetch(resp) ==
    IF resp.kind = "neterr" THEN [out |-> "return", records |-> <<>>, error |-> "DLL not loaded"]
    ELSE IF resp.kind = "nonobject" THEN [out |-> "return", records |-> <<>>, error |-> "AttributeError"]
    ELSE IF ~resp.success
         THEN [out |-> "return", records |-> <<>>, error |-> PayloadError(resp, "Unknown error")]
    ELSE [out |-> "return", records |-> resp.records, error |-> ""]

FetchOf(resp, devId) == IF impl = "api" THEN ApiFetch(resp, devId) ELSE DllFetch(resp)

\* log.completed_at is set by ZKAPIService.sync_attendance, never by ZKDeviceService
SetsCompleted == impl = "api"

TransportOf(resp) == IF resp.kind = "json" /\ resp.success THEN "ok" ELSE "fail"

FetchAttendance(r, resp) ==
    /\ run[r].pc = "fetch" /\ run[r].kind = "attendance" /\ impl \in {"api", "dll"}
    /\ LET f == FetchOf(resp, run[r].dev)
           d == run[r].dev
           rn == [run[r] EXCEPT !.transport = TransportOf(resp)]
       IN IF f.out = "raise" \/ f.error # ""
          THEN \* "if error:" and "except Exception as e:" save the log as failed
               /\ synclog' = [synclog EXCEPT ![run[r].id] =
                                Append(@, LogRow(d, "attendance", 0, FALSE, f.error, SetsCompleted))]
               /\ run' = [run EXCEPT ![r] =
                            Returned(rn, IF f.out = "raise" THEN "exception" ELSE "error",
                                     <<0, f.error>>)]
          ELSE /\ run' = [run EXCEPT ![r] =
                            [rn EXCEPT !.pc = IF f.records = <<>> THEN "save" ELSE "loop",
                                       !.records = f.records, !.start_time = NoneVal,
                                       !.before = BagCardinality(attendance)]]
               /\ UNCHANGED synclog
    /\ UNCHANGED <<probe, impl, now, device, employees, emprow, attendance, nrun, attdata, batch, nadmin, nposts, task, operation_status, asyncop>>

\* --------------------------------------- attendance pass: one record
\* "for record in records": run[r].records holds the records still to come,
\* the one at hand first.
\* A variant of the loop that leaves after its first record.
NextPcEarly(r) == "save"

NextPc(r) == IF Tail(run[r].records) = <<>> THEN "save" ELSE "loop"

\* A variant of the validation that asks for the employee id only.
ValidIdOnly(employee_id, punch_time) == Truthy(employee_id)

\* if employee_id and punch_time:
Valid(employee_id, punch_time) == Truthy(employee_id) /\ Truthy(punch_time)

\* if employee_id and punch_time: / if not ...filter(...).exists():
CheckRecord(r) ==
    /\ run[r].pc = "loop"
    /\ LET rec == Head(run[r].records)
           employee_id == Get(rec, "EmployeeID")
           punch_time == Get(rec, "PunchTime")
       IN IF ~Valid(employee_id, punch_time)
          THEN run' = [run EXCEPT ![r].records = Tail(@), ![r].pc = NextPc(r),
                                  ![r].skipped = @ \cup {"malformed"}]
          ELSE IF impl = "api"
                  /\ RecordExists(attendance, employee_id, punch_time, run[r].copy.ip_address)
          THEN run' = [run EXCEPT ![r].records = Tail(@), ![r].pc = NextPc(r),
                                  ![r].skipped = @ \cup {"exists"}]
          ELSE run' = [run EXCEPT ![r].pc = "create"]
    /\ UNCHANGED <<probe, impl, now, device, employees, emprow, attendance, synclog, nrun, attdata, batch, nadmin, nposts, task, operation_status, asyncop>>

RowOf(rec, ip) ==
    [employee |-> Get(rec, "EmployeeID"), punch_time |-> Get(rec, "PunchTime"),
     device_id |-> GetD(rec, "DeviceID", 0), device_ip |-> ip,
     verification_mode |-> GetD(rec, "VerificationMode", 0), status |-> GetD(rec, "Status", 0)]

\* A variant of the employee lookup that finds every employee.
EmployeeAssumed(emp, emps) == TRUE

\* Employee.objects.get(employee_id=employee_id) finds the employee
EmployeeKnown(emp, emps) == emp \in emps

\* A variant of the loop in which a record's exception ends the pass.
RecordAborts(rn, next, reason) == Returned(rn, "exception", <<0, reason>>)

\* "except Employee.DoesNotExist: continue", "except Exception as e: continue"
RecordSkipped(rn, next, reason) ==
    [rn EXCEPT !.records = Tail(@), !.pc = next, !.skipped = @ \cup {reason}]

\* Employee.objects.get(...) then AttendanceRecord.objects.create(...);
\* Employee.DoesNotExist and every other exception skip the record.
CreateRecord(r) ==
    /\ run[r].pc = "create"
    /\ LET rec == Head(run[r].records)
           row == RowOf(rec, run[r].copy.ip_address)
       IN IF EmployeeKnown(row.employee, employees) /\ CreateOk(attendance, row)
          THEN /\ attendance' = Insert(attendance, row)
               /\ run' = [run EXCEPT ![r].records = Tail(@), ![r].pc = NextPc(r),
                                     ![r].synced_count = @ + 1]
          ELSE /\ run' = [run EXCEPT ![r] =
                            RecordSkipped(run[r], NextPc(r),
                                          IF EmployeeKnown(row.employee, employees)
                                          THEN "rejected" ELSE "no_employee")]
               /\ UNCHANGED attendance
    /\ UNCHANGED <<probe, impl, now, device, employees, emprow, synclog, nrun, attdata, batch, nadmin, nposts, task, operation_status, asyncop>>

\* ------------------------------------- attendance pass: the cursor write
\* device.save() writes every column of the in-memory device object; the
\* table's unique_together = ['ip_address', 'port'] can reject it.
SaveRejected(dev, d, row) ==
    \E o \in Dev \ {d} : dev[o].ip_address = row.ip_address /\ dev[o].port = row.port

\* A variant of the cursor write that stops short of the window end.
SavedDeviceBehind(copy, end) == [copy EXCEPT !.last_sync = end - 1]

\* device.last_sync = end_time
SavedDevice(copy, end) == [copy EXCEPT !.last_sync = end]

FinishAttendance(r) ==
    /\ run[r].pc = "save" /\ run[r].kind = "attendance" /\ impl \in {"api", "dll"}
    /\ LET d == run[r].dev
           row == SavedDevice(run[r].copy, run[r].end_time)
       IN IF SaveRejected(device, d, row)
          THEN /\ synclog' = [synclog EXCEPT ![run[r].id] =
                                Append(@, LogRow(d, "attendance", 0, FALSE, "IntegrityError", SetsCompleted))]
               /\ run' = [run EXCEPT ![r] = Returned(run[r], "exception", <<0, "IntegrityError">>)]
               /\ UNCHANGED device
          ELSE /\ device' = [device EXCEPT ![d] = row]
               /\ synclog' = [synclog EXCEPT ![run[r].id] =
                                Append(@, LogRow(d, "attendance", run[r].synced_count, TRUE, "", SetsCompleted))]
               /\ run' = [run EXCEPT ![r] = Returned(run[r], "success", <<run[r].synced_count, "">>)]
    /\ UNCHANGED <<probe, impl, now, employees, emprow, attendance, nrun, attdata, batch, nadmin, nposts, task, operation_status, asyncop>>

\* ------------------------------------------------------- employee pass
StartEmployees(r, d) ==
    /\ impl = "api"
    /\ Free(r)
    /\ run' = [run EXCEPT ![r] =
                 [IdleRun EXCEPT !.pc = "fetch", !.id = nrun + 1, !.kind = "employees", !.dev = d,
                                 !.by = "direct", !.copy = device[d]]]
    /\ nrun' = nrun + 1
    /\ UNCHANGED <<probe, impl, now, device, employees, emprow, attendance, synclog, attdata, batch, nadmin, nposts, task, operation_status, asyncop>>

\* ZKAPIService.get_employees
ApiFetchEmployees(resp) ==
    IF resp.kind = "neterr" THEN [records |-> <<>>, error |-> "API request failed"]
    ELSE IF ~resp.success
         THEN [records |-> <<>>, error |-> PayloadError(resp, "Unknown error from wrapper API")]
    ELSE [records |-> [k \in 1..Len(resp.employees) |-> AdaptEmployee(resp.employees[k])],
          error |-> ""]

\* get_employees(device), "if error: ... return 0, error"
FetchEmployees(r, resp) ==
    /\ run[r].pc = "fetch" /\ run[r].kind = "employees"
    /\ LET f == ApiFetchEmployees(resp)
           rn == [run[r] EXCEPT !.transport = TransportOf(resp)]
       IN IF f.error # ""
          THEN \* log.save() without completed_at
               /\ synclog' = [synclog EXCEPT ![run[r].id] =
                                Append(@, LogRow(run[r].dev, "employees", 0, FALSE, f.error, FALSE))]
               /\ run' = [run EXCEPT ![r] = Returned(rn, "error", <<0, f.error>>)]
          ELSE /\ run' = [run EXCEPT ![r] = [rn EXCEPT !.pc = "upsert", !.records = f.records]]
               /\ UNCHANGED synclog
    /\ UNCHANGED <<probe, impl, now, device, employees, emprow, attendance, nrun, attdata, batch, nadmin, nposts, task, operation_status, asyncop>>

\* The loop body ends without an exception: the name is a string
\* (' ' in name), and employee_id, name, department and position are not
\* NULL (the columns of Employee are NOT NULL).
Storable(e) ==
    e.pin # NoneVal /\ e.name # NoneVal /\ e.department # NoneVal /\ e.position # NoneVal

\* Employee.objects.update_or_create(employee_id=pin, defaults={...})
UpsertOne(rows, e) ==
    [id \in DOMAIN rows \cup {e.pin} |->
        IF id = e.pin
        THEN [name |-> e.name, department |-> e.department, position |-> e.position]
        ELSE rows[id]]

\* "for emp_data in employees: try: ... except Exception as e: continue"
RECURSIVE UpsertAll(_, _)
UpsertAll(rows, recs) ==
    IF recs = <<>> THEN rows
    ELSE UpsertAll(IF Storable(Head(recs)) THEN UpsertOne(rows, Head(recs)) ELSE rows, Tail(recs))

Upserted(recs) == Cardinality({j \in 1..Len(recs) : Storable(recs[j])})

\* The loop of sync_employees, its log row and its return
UpsertEmployees(r) ==
    /\ run[r].pc = "upsert" /\ run[r].kind = "employees"
    /\ LET recs == run[r].records
           n == Upserted(recs)
       IN /\ emprow' = UpsertAll(emprow, recs)
          /\ employees' = DOMAIN emprow'
          /\ synclog' = [synclog EXCEPT ![run[r].id] =
                           Append(@, LogRow(run[r].dev, "employees", n, TRUE, "", TRUE))]
          /\ run' = [run EXCEPT ![r] = Returned(run[r], "success", <<n, "">>)]
    /\ UNCHANGED <<probe, impl, now, device, attendance, nrun, attdata, batch, nadmin, nposts, task, operation_status, asyncop>>

\* ------------------------------------------ TempDLL/tasks.py: one pass
TempPool ==
    { [EmployeeId |-> 1, RecordTime |-> 1],
      [EmployeeId |-> 2, RecordTime |-> 1],
      [EmployeeId |-> 1] }

\* What biometric_integration.utils.zk_biometric.get_attendance_records returns.
TempResponses ==
    { [kind |-> "json", success |-> FALSE] }
    \cup { [kind |-> "json", success |-> TRUE, records |-> b] : b \in SeqsUpTo(TempPool, MaxBatch) }

TempWindowStart(copy, sync_time) ==
    IF copy.last_sync # NoneVal THEN copy.last_sync ELSE sync_time - LookbackTemp

\* sync_device_attendance(device, sync_time) entered
TempEntered(id, d, copy, sync_time, by) ==
    [IdleRun EXCEPT !.pc = "fetch", !.id = id, !.kind = "attendance", !.dev = d, !.by = by,
                    !.copy = copy, !.end_time = sync_time,
                    !.start_time = TempWindowStart(copy, sync_time)]

\* retry_failed_syncs, one device of its loop:
\* ZKDevice.objects.filter(is_active=True, last_sync__lt=cutoff_time)
RetryFilter(row, t) ==
    row.is_active /\ row.last_sync # NoneVal /\ row.last_sync < t - RetryCutoff

StartRetry(r, d) ==
    /\ impl = "temp"
    /\ Free(r)
    /\ ReadClock
    /\ RetryFilter(device[d], now')
    /\ run' = [run EXCEPT ![r] = TempEntered(nrun + 1, d, device[d], now', "direct")]
    /\ nrun' = nrun + 1
    /\ UNCHANGED <<probe, impl, device, employees, emprow, attendance, synclog, attdata, batch, nadmin, nposts, task, operation_status, asyncop>>

\* process_attendance_record: FALSE for a record that is invalid or names no
\* employee, else AttendanceData.objects.update_or_create(...) and TRUE.
TempValid(rec) == Truthy(GetD(rec, "EmployeeId", 0)) /\ Truthy(Get(rec, "RecordTime"))
TempProcessed(rec, emps) == TempValid(rec) /\ EmployeeKnown(rec.EmployeeId, emps)

TempKey(row) == <<row.device, row.employee, row.punch_time>>

UpdateOrCreate(data, row) == {x \in data : TempKey(x) # TempKey(row)} \cup {row}

RECURSIVE TempStore(_, _, _, _, _)
TempStore(data, recs, d, emps, sync_time) ==
    IF recs = <<>> THEN data
    ELSE LET rec == Head(recs)
             row == [device |-> d, employee |-> rec.EmployeeId,
                     punch_time |-> rec.RecordTime, sync_time |-> sync_time]
         IN TempStore(IF TempProcessed(rec, emps) THEN UpdateOrCreate(data, row) ELSE data,
                      Tail(recs), d, emps, sync_time)

TempCount(recs, emps) == Cardinality({k \in 1..Len(recs) : TempProcessed(recs[k], emps)})

TempSkipped(recs, emps) ==
    {"malformed" : k \in {j \in 1..Len(recs) : ~TempValid(recs[j])}}
    \cup {"no_employee" : k \in {j \in 1..Len(recs) : TempValid(recs[j]) /\ ~TempProcessed(recs[j], emps)}}

\* get_attendance_records(...), "if not result.get('success'): return 0"
TempFetch(r, resp) ==
    /\ impl = "temp"
    /\ run[r].pc = "fetch"
    /\ LET rn == [run[r] EXCEPT !.transport = TransportOf(resp)]
       IN IF ~resp.success
          THEN run' = [run EXCEPT ![r] = Returned(rn, "error", <<0, "">>)]
          ELSE run' = [run EXCEPT ![r] = [rn EXCEPT !.pc = "commit", !.records = resp.records,
                                                    !.start_time = NoneVal]]
    /\ UNCHANGED <<probe, impl, now, device, employees, emprow, attendance, synclog, nrun, attdata, batch, nadmin, nposts, task, operation_status, asyncop>>

\* No records: the cursor write alone.  Otherwise "with transaction.atomic()":
\* every record and the cursor write commit together, or (the device row
\* being rejected) not at all.
TempCommit(r) ==
    /\ impl = "temp"
    /\ run[r].pc = "commit"
    /\ LET d == run[r].dev
           recs == run[r].records
           rn == [run[r] EXCEPT !.skipped = TempSkipped(recs, employees)]
           row == SavedDevice(run[r].copy, run[r].end_time)
       IN IF SaveRejected(device, d, row)
          THEN /\ run' = [run EXCEPT ![r] = Returned(rn, "exception", <<0, "IntegrityError">>)]
               /\ UNCHANGED <<device, attdata>>
          ELSE /\ attdata' = TempStore(attdata, recs, d, employees, run[r].end_time)
               /\ device' = [device EXCEPT ![d] = row]
               /\ run' = [run EXCEPT ![r] =
                            Returned(rn, "success", <<TempCount(recs, employees), "">>)]
    /\ UNCHANGED <<probe, impl, now, employees, emprow, attendance, synclog, nrun, batch, nadmin, nposts, task, operation_status, asyncop>>

\* ------------------------------------------- runs over all active devices
\* ZKDevice.objects.filter(is_active=True): ZKDevice declares no ordering, so
\* the rows come in an order the database chooses.
Orderings(S) ==
    {q \in [1..Cardinality(S) -> S] : \A a, b \in 1..Cardinality(S) : q[a] = q[b] => a = b}

ActiveDevices(dev) == Orderings({d \in Dev : dev[d].is_active})

BatchKinds == IF impl = "api" THEN {"command", "celery"} ELSE {}

\* sync_devices --all and sync_all_devices_attendance: the devices are listed.
BatchStart(kind) ==
    /\ batch.pc = "idle"
    /\ kind \in BatchKinds
    /\ nrun < MaxRuns
    /\ \E q \in ActiveDevices(device) :
          batch' = [NoBatch EXCEPT !.pc = IF q = <<>> THEN "done" ELSE "run",
                                   !.kind = kind, !.queue = q,
                                   !.copies = IF kind = "celery" THEN <<>>
                                              ELSE [k \in 1..Len(q) |-> device[q[k]]]]
    /\ UNCHANGED <<probe, impl, now, device, employees, emprow, attendance, synclog, run, nrun, attdata, nadmin, nposts, task, operation_status, asyncop>>

\* sync_attendance_from_devices is declared @shared_task(bind=True, ...) and
\* takes no parameter: Celery calls a bound task with the task instance as
\* first argument, so the call raises TypeError before the body (the listing
\* of the devices, the capture of sync_time, the loop) runs.
TempBatchCall ==
    /\ impl = "temp"
    /\ batch.pc = "idle"
    /\ batch' = [NoBatch EXCEPT !.pc = "done", !.kind = "temp"]
    /\ UNCHANGED <<probe, impl, now, device, employees, emprow, attendance, synclog, run, nrun, attdata, nadmin, nposts, task, operation_status, asyncop>>

\* The loop body: the pass for the next device is entered.  The command
\* syncs the device objects it listed; the Celery task reads its device
\* again by id.
BatchDispatch(r) ==
    /\ batch.pc = "run" /\ batch.cur = 0
    /\ Free(r)
    /\ LET d == Head(batch.queue)
       IN CASE batch.kind = "command" ->
                 /\ ReadClock
                 /\ run' = [run EXCEPT ![r] = Entered(nrun + 1, d, Head(batch.copies), FALSE, now', "batch")]
            [] batch.kind = "celery" ->
                 /\ ReadClock
                 /\ run' = [run EXCEPT ![r] = Entered(nrun + 1, d, device[d], FALSE, now', "batch")]
    /\ nrun' = nrun + 1
    /\ batch' = [batch EXCEPT !.cur = r]
    /\ UNCHANGED <<probe, impl, device, employees, emprow, attendance, synclog, attdata, nadmin, nposts, task, operation_status, asyncop>>

\* The pass has returned (or raised): its count is added unless it failed,
\* and the loop goes on to the next device.
Counted(rn) == IF rn.outcome = "success" THEN rn.result[1] ELSE 0

\* A variant of the loop that gives up at the first device that fails.
LoopStopsOnFailure(queue, rn) ==
    IF Tail(queue) = <<>> \/ rn.outcome # "success" THEN "done" ELSE "run"

\* "for device in devices:" with every failure caught inside the loop body
LoopOn(queue, rn) == IF Tail(queue) = <<>> THEN "done" ELSE "run"

\* What the run writes out about the device (stdout, the log)
Reported(rn) ==
    [dev |-> rn.dev, id |-> rn.id, ok |-> rn.outcome = "success", count |-> rn.result[1]]

\* The command calls the pass and has its result.  The Celery task sends
\* sync_device_attendance_task.delay(device.id) and calls
\* result.get(timeout=300), which hands back the result of the pass or
\* raises (TimeoutError when the result is not there in time; RuntimeError
\* inside a worker, where Celery refuses to wait for a subtask); the
\* exception is caught by "except Exception ... continue".
GetOutcomes(kind) == IF kind = "celery" THEN BOOLEAN ELSE {TRUE}

BatchCollect ==
    /\ batch.pc = "run" /\ batch.cur # 0
    /\ run[batch.cur].pc = "done"
    /\ \E got \in GetOutcomes(batch.kind) :
       batch' = [batch EXCEPT !.total = @ + (IF got THEN Counted(run[batch.cur]) ELSE 0),
                              !.queue = Tail(@), !.cur = 0,
                              !.copies = IF @ = <<>> THEN @ ELSE Tail(@),
                              !.report = Append(@, Reported(run[batch.cur])),
                              !.pc = LoopOn(batch.queue, run[batch.cur])]
    /\ UNCHANGED <<probe, impl, now, device, employees, emprow, attendance, synclog, run, nrun, attdata, nadmin, nposts, task, operation_status, asyncop>>

\* ------------------------------------- retry_failed_syncs as a whole
\* cutoff_time = timezone.now() - timedelta(hours=2); the devices that pass
\* the filter are listed.
RetryStart ==
    /\ impl = "temp"
    /\ batch.pc = "idle"
    /\ nrun < MaxRuns
    /\ ReadClock
    /\ \E q \in Orderings({d \in Dev : RetryFilter(device[d], now')}) :
          batch' = [NoBatch EXCEPT !.pc = IF q = <<>> THEN "done" ELSE "run",
                                   !.kind = "retry", !.queue = q,
                                   !.copies = [k \in 1..Len(q) |-> device[q[k]]]]
    /\ UNCHANGED <<probe, impl, device, employees, emprow, attendance, synclog, run, nrun, attdata, nadmin, nposts, task, operation_status, asyncop>>

\* sync_device_attendance(device, timezone.now()) for the next listed device
RetryDispatch(r) ==
    /\ batch.kind = "retry" /\ batch.pc = "run" /\ batch.cur = 0
    /\ Free(r)
    /\ ReadClock
    /\ run' = [run EXCEPT ![r] =
                 TempEntered(nrun + 1, Head(batch.queue), Head(batch.copies), now', "retry")]
    /\ nrun' = nrun + 1
    /\ batch' = [batch EXCEPT !.cur = r]
    /\ UNCHANGED <<probe, impl, device, employees, emprow, attendance, synclog, attdata, nadmin, nposts, task, operation_status, asyncop>>

\* "retry_count += 1" unless the pass raised; the loop goes on.
RetryCollect ==
    /\ batch.kind = "retry" /\ batch.pc = "run" /\ batch.cur # 0
    /\ run[batch.cur].pc = "done"
    /\ batch' = [batch EXCEPT !.total = @ + (IF run[batch.cur].outcome = "exception" THEN 0 ELSE 1),
                              !.queue = Tail(@), !.cur = 0, !.copies = Tail(@),
                              !.report = Append(@, Reported(run[batch.cur])),
                              !.pc = LoopOn(batch.queue, run[batch.cur])]
    /\ UNCHANGED <<probe, impl, now, device, employees, emprow, attendance, synclog, run, nrun, attdata, nadmin, nposts, task, operation_status, asyncop>>

\* ------------------ complete sync: employees first, then attendance
\* sync_devices --complete --all and sync_all_devices_complete: the run
\* over the employees of all active devices begins.
CompleteStart(kind) ==
    /\ impl = "api"
    /\ batch.pc = "idle"
    /\ nrun < MaxRuns
    /\ \E q \in ActiveDevices(device) :
          batch' = [NoBatch EXCEPT !.pc = "run", !.kind = kind, !.phase = "employees", !.queue = q]
    /\ UNCHANGED <<probe, impl, now, device, employees, emprow, attendance, synclog, run, nrun, attdata, nadmin, nposts, task, operation_status, asyncop>>

\* The loop body of either run: the pass for the next device is entered
\* (called by the command, sent with .delay(device.id) by the Celery task).
CompleteDispatch(r) ==
    /\ batch.phase # "none" /\ batch.pc = "run" /\ batch.cur = 0 /\ batch.queue # <<>>
    /\ Free(r)
    /\ LET d == Head(batch.queue)
       IN IF batch.phase = "employees"
          THEN /\ run' = [run EXCEPT ![r] =
                            [IdleRun EXCEPT !.pc = "fetch", !.id = nrun + 1, !.kind = "employees",
                                            !.dev = d, !.by = "complete", !.copy = device[d]]]
               /\ UNCHANGED now
          ELSE /\ ReadClock
               /\ run' = [run EXCEPT ![r] =
                            Entered(nrun + 1, d,
                                    IF batch.kind = "command" THEN Head(batch.copies) ELSE device[d],
                                    FALSE, now', "complete")]
    /\ nrun' = nrun + 1
    /\ batch' = [batch EXCEPT !.cur = r]
    /\ UNCHANGED <<probe, impl, device, employees, emprow, attendance, synclog, attdata, nadmin, nposts, task, operation_status, asyncop>>

\* The command has the result of the pass it called.  The Celery task has
\* it from result.get(timeout=300), or result.get raises, the exception is
\* caught, and the loop goes on while the pass it sent is still under way.
CompleteCollect ==
    /\ batch.phase # "none" /\ batch.pc = "run" /\ batch.cur # 0
    /\ \E got \in GetOutcomes(batch.kind) :
          /\ got => run[batch.cur].pc = "done"
          /\ batch' = [batch EXCEPT !.total = @ + (IF got THEN Counted(run[batch.cur]) ELSE 0),
                                    !.queue = Tail(@), !.cur = 0,
                                    !.copies = IF @ = <<>> THEN @ ELSE Tail(@)]
    /\ UNCHANGED <<probe, impl, now, device, employees, emprow, attendance, synclog, run, nrun, attdata, nadmin, nposts, task, operation_status, asyncop>>

\* The run over the employees has ended: the command goes on to
\* _sync_attendance; sync_all_devices_complete has the result of
\* sync_all_devices_employees from employee_result.get(timeout=600) and
\* sends sync_all_devices_attendance, or that get raises and the task ends
\* there.  The run over the attendance has ended: the complete sync returns.
CompleteNext ==
    /\ batch.phase # "none" /\ batch.pc = "run" /\ batch.cur = 0 /\ batch.queue = <<>>
    /\ IF batch.phase = "employees"
       THEN \E got \in GetOutcomes(batch.kind), q \in ActiveDevices(device) :
               batch' = IF got
                        THEN [batch EXCEPT !.phase = "attendance", !.queue = q, !.total = 0,
                                           !.copies = IF batch.kind = "command"
                                                      THEN [k \in 1..Len(q) |-> device[q[k]]]
                                                      ELSE <<>>]
                        ELSE [batch EXCEPT !.pc = "done"]
       ELSE batch' = [batch EXCEPT !.pc = "done"]
    /\ UNCHANGED <<probe, impl, now, device, employees, emprow, attendance, synclog, run, nrun, attdata, nadmin, nposts, task, operation_status, asyncop>>

\* -------------------------------- sync_device_attendance_task (Celery)
\* self.retry(exc=...): a message with retries + 1 goes to the broker unless
\* that exceeds max_retries; in both cases the call raises (Retry, or exc).
RetrySends(retries) == IF retries + 1 > MaxRetries THEN <<>> ELSE <<retries + 1>>

\* "if error: raise self.retry(exc=Exception(error))" stands inside the try
\* whose "except Exception as e: raise self.retry(exc=e)" catches what the
\* first call raised (Retry is an Exception): self.retry is called twice.
RetryCalls(error) == IF error # "" THEN 2 ELSE 0

\* sync_device_attendance_task.delay(device_id)
TaskDelay(d) ==
    /\ impl = "api"
    /\ task.state = "none"
    /\ task' = [NoTask EXCEPT !.state = "PENDING", !.dev = d, !.msgs = <<0>>]
    /\ UNCHANGED <<probe, impl, now, device, employees, emprow, attendance, synclog, run, nrun, attdata, batch, nadmin, nposts, operation_status, asyncop>>

\* A worker takes a message of the task: the device is read, the pass entered.
TaskExecute(r) ==
    /\ task.msgs # <<>> /\ task.cur = NoneVal
    /\ Free(r)
    /\ ReadClock
    /\ run' = [run EXCEPT ![r] = Entered(nrun + 1, task.dev, device[task.dev], FALSE, now', "task")]
    /\ nrun' = nrun + 1
    /\ task' = [task EXCEPT !.msgs = Tail(@), !.cur = Head(task.msgs), !.state = "STARTED",
                            !.executions = @ + 1, !.scheduled = 0]
    /\ UNCHANGED <<probe, impl, device, employees, emprow, attendance, synclog, attdata, batch, nadmin, nposts, operation_status, asyncop>>

\* The pass has returned (records_synced, error): the task returns its
\* result, or retries.
TaskReturn(r) ==
    /\ task.cur # NoneVal
    /\ run[r].pc = "done" /\ run[r].by = "task"
    /\ LET error == run[r].result[2]
           sends == IF RetryCalls(error) = 2 THEN RetrySends(task.cur) \o RetrySends(task.cur)
                    ELSE <<>>
       IN task' = [task EXCEPT !.msgs = @ \o sends, !.cur = NoneVal,
                               !.scheduled = Len(sends),
                               !.state = IF error = "" THEN "SUCCESS"
                                         ELSE IF sends = <<>> THEN "FAILURE" ELSE "RETRY"]
    /\ UNCHANGED <<probe, impl, now, device, employees, emprow, attendance, synclog, run, nrun, attdata, batch, nadmin, nposts, operation_status, asyncop>>

\* ------------------------------------------------ DeviceAPIView.post
AdminPosts ==
    { [name |-> "renamed"], [is_active |-> FALSE], [ip_address |-> 3], [port |-> 4371],
      [ip_address |-> 1, port |-> 4371] }

Updated(row, data) ==
    [f \in DOMAIN row |-> IF f \in DOMAIN data THEN data[f] ELSE row[f]]

AdminUpdate(d, data) ==
    /\ nadmin < MaxAdmin
    /\ nadmin' = nadmin + 1
    /\ LET row == Updated(device[d], data)
       IN IF SaveRejected(device, d, row)
          THEN UNCHANGED device
          ELSE device' = [device EXCEPT ![d] = row]
    /\ UNCHANGED <<probe, impl, now, employees, emprow, attendance, synclog, run, nrun, attdata, batch, nposts, task, operation_status, asyncop>>

\* ---------------------------------------------- AttendanceAPIView.post
PostPool ==
    { [employee_id |-> 1, punch_time |-> 1, device_ip |-> 1],
      [employee_id |-> 1, punch_time |-> 1, device_ip |-> 1, device_id |-> 9] }

PostRow(rd) ==
    [employee |-> Get(rd, "employee_id"), punch_time |-> Get(rd, "punch_time"),
     device_id |-> GetD(rd, "device_id", 0), device_ip |-> Get(rd, "device_ip"),
     verification_mode |-> GetD(rd, "verification_mode", 0), status |-> GetD(rd, "status", 0)]

RECURSIVE PostAll(_, _, _)
PostAll(att, emps, recs) ==
    IF recs = <<>> THEN att
    ELSE LET row == PostRow(Head(recs))
             ok == /\ Truthy(row.employee) /\ Truthy(row.punch_time) /\ Truthy(row.device_ip)
                   /\ row.employee \in emps
                   /\ CreateOk(att, row)
         IN PostAll(IF ok THEN Insert(att, row) ELSE att, emps, Tail(recs))

AttendancePost(recs) ==
    /\ impl \in {"api", "dll"}
    /\ nposts < MaxPosts
    /\ nposts' = nposts + 1
    /\ attendance' = PostAll(attendance, employees, recs)
    /\ UNCHANGED <<probe, impl, now, device, employees, emprow, synclog, run, nrun, attdata, batch, nadmin, task, operation_status, asyncop>>

\* ------------- zk_device_api.py, zk_device_api_real.py: async operations
\* operation_status[operation_id] as the code writes it: without a "result"
\* key, with result None, or with the data fetched.
Absent == [status |-> "absent", progress |-> 0, result |-> "absent"]
Queued == [status |-> "pending", progress |-> 0, result |-> "absent"]
Processing(p) == [status |-> "processing", progress |-> p, result |-> "absent"]
Completed == [status |-> "completed", progress |-> 100, result |-> "data"]
Failed == [status |-> "failed", progress |-> 0, result |-> "none"]

\* A variant of the wrappers that hands out the id without recording it.
NotRecorded == Absent

\* async_get_employees, async_get_attendance: what is recorded under the
\* new id before the id is handed out
Recorded == Queued

\* The background task of an operation that does not exist.
NoOp == [pc |-> "none", wrapper |-> "none", endpoint |-> "none", step |-> 0,
         connected |-> FALSE, success |-> FALSE]

NoAnswer == [id |-> 0, status |-> "none", progress |-> 0, result |-> "absent"]

\* POST /async/get-employees, /async/get-attendance of either wrapper:
\* operation_id = str(uuid.uuid4()), the status is recorded, the background
\* task is added, the id is returned.
AsyncStart(w, endpoint) ==
    /\ asyncop.n < MaxOps
    /\ LET id == asyncop.n + 1
       IN /\ operation_status' = [operation_status EXCEPT ![id] = Recorded]
          /\ asyncop' = [asyncop EXCEPT !.n = id,
                                        !.op[id] = [NoOp EXCEPT !.pc = "queued", !.wrapper = w,
                                                                !.endpoint = endpoint]]
    /\ UNCHANGED <<probe, impl, now, device, employees, emprow, attendance, synclog, run, nrun, attdata, batch, nadmin, nposts, task>>

\* The background task starts: PROCESSING, progress 0 (simulation) or 10
\* ("Connecting to device", real SDK).
AsyncBegin(id) ==
    /\ asyncop.op[id].pc = "queued"
    /\ IF asyncop.op[id].wrapper = "sim"
       THEN /\ operation_status' = [operation_status EXCEPT ![id] = Processing(0)]
            /\ asyncop' = [asyncop EXCEPT !.op[id].pc = "steps"]
       ELSE /\ operation_status' = [operation_status EXCEPT ![id] = Processing(10)]
            /\ asyncop' = [asyncop EXCEPT !.op[id].pc = "connect"]
    /\ UNCHANGED <<probe, impl, now, device, employees, emprow, attendance, synclog, run, nrun, attdata, batch, nadmin, nposts, task>>

\* progress = int((step + 1) / total_steps * 100)
StepProgress(step) == ((step + 1) * 100) \div TotalSteps

\* process_async_operation, one round of "for step in range(total_steps)":
\* await asyncio.sleep(1), then the progress is recorded.
SimStep(id) ==
    /\ asyncop.op[id].pc = "steps"
    /\ LET step == asyncop.op[id].step
       IN /\ operation_status' = [operation_status EXCEPT ![id] = Processing(StepProgress(step))]
          /\ asyncop' = [asyncop EXCEPT !.op[id].step = step + 1,
                                        !.op[id].pc = IF step + 1 = TotalSteps THEN "result" ELSE "steps"]
    /\ UNCHANGED <<probe, impl, now, device, employees, emprow, attendance, synclog, run, nrun, attdata, batch, nadmin, nposts, task>>

\* result = await simulate_zk_communication_enhanced(...); COMPLETED
SimComplete(id) ==
    /\ asyncop.op[id].pc = "result"
    /\ asyncop.op[id].wrapper = "sim"
    /\ operation_status' = [operation_status EXCEPT ![id] = Completed]
    /\ asyncop' = [asyncop EXCEPT !.op[id].pc = "done", !.op[id].success = TRUE]
    /\ UNCHANGED <<probe, impl, now, device, employees, emprow, attendance, synclog, run, nrun, attdata, batch, nadmin, nposts, task>>

\* What a call of the SDK can do: answer success, answer without success,
\* or raise.
SdkOutcomes == {"ok", "unsuccessful", "raises"}

\* connect_result = zk_api.ConnectDevice(device_json); no success or an
\* exception: "except Exception": FAILED.  Success: PROCESSING, progress 30.
RealConnect(id, outcome) ==
    /\ asyncop.op[id].pc = "connect"
    /\ IF outcome = "ok"
       THEN /\ operation_status' = [operation_status EXCEPT ![id] = Processing(30)]
            /\ asyncop' = [asyncop EXCEPT !.op[id].pc = "fetch", !.op[id].connected = TRUE]
       ELSE /\ operation_status' = [operation_status EXCEPT ![id] = Failed]
            /\ asyncop' = [asyncop EXCEPT !.op[id].pc = "done"]
    /\ UNCHANGED <<probe, impl, now, device, employees, emprow, attendance, synclog, run, nrun, attdata, batch, nadmin, nposts, task>>

\* zk_api.GetEmployees / zk_api.GetAttendanceRecords and json.loads of the
\* answer; an exception goes straight to "except Exception": FAILED.
RealFetch(id, outcome) ==
    /\ asyncop.op[id].pc = "fetch"
    /\ IF outcome = "raises"
       THEN /\ operation_status' = [operation_status EXCEPT ![id] = Failed]
            /\ asyncop' = [asyncop EXCEPT !.op[id].pc = "done"]
       ELSE /\ asyncop' = [asyncop EXCEPT !.op[id].pc = "disconnect",
                                          !.op[id].success = (outcome = "ok")]
            /\ UNCHANGED operation_status
    /\ UNCHANGED <<probe, impl, now, device, employees, emprow, attendance, synclog, run, nrun, attdata, batch, nadmin, nposts, task>>

\* zk_api.DisconnectDevice(device_json), then COMPLETED with the result if
\* result_data['success'], else "raise Exception(...)": FAILED.
RealFinish(id, outcome) ==
    /\ asyncop.op[id].pc = "disconnect"
    /\ outcome # "unsuccessful"
    /\ IF outcome = "raises"
       THEN /\ operation_status' = [operation_status EXCEPT ![id] = Failed]
            /\ asyncop' = [asyncop EXCEPT !.op[id].pc = "done"]
       ELSE /\ operation_status' = [operation_status EXCEPT ![id] =
                                      IF asyncop.op[id].success THEN Completed ELSE Failed]
            /\ asyncop' = [asyncop EXCEPT !.op[id].pc = "done", !.op[id].connected = FALSE]
    /\ UNCHANGED <<probe, impl, now, device, employees, emprow, attendance, synclog, run, nrun, attdata, batch, nadmin, nposts, task>>

\* process_real_async_operation has no await: once begun it runs to its end
\* before the server answers another request.
RealUnderWay == \E id \in OpId : asyncop.op[id].pc \in {"connect", "fetch", "disconnect"}

\* GET /async/status/{operation_id} for an id that was handed out
AsyncStatus(id) ==
    /\ id <= asyncop.n
    /\ ~RealUnderWay
    /\ asyncop' = [asyncop EXCEPT !.answer =
                     IF operation_status[id] = Absent
                     THEN [NoAnswer EXCEPT !.id = id, !.status = "Operation not found"]
                     ELSE [id |-> id, status |-> operation_status[id].status,
                           progress |-> operation_status[id].progress,
                           result |-> operation_status[id].result]]
    /\ UNCHANGED <<probe, impl, now, device, employees, emprow, attendance, synclog, run, nrun, attdata, batch, nadmin, nposts, task, operation_status>>

\* ------------------------------------------------------ specifications
\* Passes one after the other: one process executes them all.
Next ==
    \/ \E d \in Dev, fa \in BOOLEAN : StartAttendance(1, d, fa)
    \/ \E r \in Run, resp \in Responses : FetchAttendance(r, resp)
    \/ \E r \in Run : CheckRecord(r)
    \/ \E r \in Run : CreateRecord(r)
    \/ \E r \in Run : FinishAttendance(r)
    \/ \E d \in Dev : StartEmployees(1, d)
    \/ \E r \in Run, resp \in EmpResponses : FetchEmployees(r, resp)
    \/ \E r \in Run : UpsertEmployees(r)
    \/ \E d \in Dev : StartRetry(1, d)
    \/ \E r \in Run, resp \in TempResponses : TempFetch(r, resp)
    \/ \E r \in Run : TempCommit(r)
    \/ TempBatchCall

Spec == Init /\ [][Next]_vars

\* The same, with the runs over all active devices: the command or the
\* periodic task is one more process, which waits for each of its passes.
NextBatch ==
    \/ \E d \in Dev, fa \in BOOLEAN : StartAttendance(1, d, fa)
    \/ \E r \in Run, resp \in Responses : FetchAttendance(r, resp)
    \/ \E r \in Run : CheckRecord(r)
    \/ \E r \in Run : CreateRecord(r)
    \/ \E r \in Run : FinishAttendance(r)
    \/ \E kind \in {"command", "celery"} : BatchStart(kind)
    \/ BatchDispatch(1)
    \/ BatchCollect
    \/ \E d \in Dev : StartRetry(1, d)
    \/ \E r \in Run, resp \in TempResponses : TempFetch(r, resp)
    \/ \E r \in Run : TempCommit(r)

SpecBatch == Init /\ [][NextBatch]_vars

\* Passes of several processes at once on one device, and attendance POST
\* requests; the device hands back one punch, any number of times.
RaceResponses ==
    {resp \in Responses :
        resp.kind = "neterr"
        \/ (resp.kind = "json" /\ resp.success
            /\ \A k \in 1..Len(resp.records) : resp.records[k] = [EmployeeID |-> 1, PunchTime |-> 1])}

NextRace ==
    \/ \E r \in Run : StartAttendance(r, 1, FALSE)
    \/ \E r \in Run, resp \in RaceResponses : FetchAttendance(r, resp)
    \/ \E r \in Run : CheckRecord(r)
    \/ \E r \in Run : CreateRecord(r)
    \/ \E r \in Run : FinishAttendance(r)
    \/ \E recs \in SeqsUpTo(PostPool, MaxBatch) : AttendancePost(recs)

SpecRace == Init /\ [][NextRace]_vars

\* Passes one after the other, and device updates by the administrator.
NextAdmin ==
    \/ \E d \in Dev : StartAttendance(1, d, FALSE)
    \/ \E r \in Run, resp \in Responses : FetchAttendance(r, resp)
    \/ \E r \in Run : CheckRecord(r)
    \/ \E r \in Run : CreateRecord(r)
    \/ \E r \in Run : FinishAttendance(r)
    \/ \E d \in Dev, data \in AdminPosts : AdminUpdate(d, data)

\* Employee passes alone, over what /fetch-users can answer: employees under
\* the aliases of the adapter, with and without an identifier, and with
\* fields that are null.
EmpPool ==
    { [pin |-> 2, name |-> 1, department |-> 1],
      [pin |-> 2, name |-> 2, department |-> 2, position |-> 1],
      [EmployeeId |-> 1, Name |-> 2],
      [employee_id |-> 2, full_name |-> NoneVal],
      [pin |-> 2, name |-> 1, department |-> NoneVal],
      [name |-> 1] }

EmpFullResponses ==
    { [kind |-> "neterr"], [kind |-> "json", success |-> FALSE, error |-> ""] }
    \cup { [kind |-> "json", success |-> TRUE, employees |-> b] : b \in SeqsUpTo(EmpPool, MaxBatch) }

NextEmployees ==
    \/ \E d \in Dev : StartEmployees(1, d)
    \/ \E r \in Run, resp \in EmpFullResponses : FetchEmployees(r, resp)
    \/ \E r \in Run : UpsertEmployees(r)

\* The deployment that settings, views, tasks and command wire up.
InitApi ==
    /\ probe = NoProbe
    /\ impl = "api"
    /\ Stores

SpecAdmin == InitApi /\ [][NextAdmin]_vars

SpecEmployees == InitApi /\ [][NextEmployees]_vars

\* ------------------------------------------- the record adapter alone
\* The values a raw field may carry: null, an empty value, two non-empty ones.
FieldValues == {NoneVal, 0, 1, 2}

\* What else a raw record may carry.
OtherFields ==
    { <<>>, [EmployeeId |-> 2], [emp_code |-> 2], [DeviceID |-> 2], [device_id |-> 2],
      [VerificationMode |-> 1], [verify_type |-> 1], [Status |-> 1], [punch_state |-> 1],
      [EmployeeId |-> 0, Status |-> 0], [pin |-> 1], [Name |-> 0, name |-> 1] }

InitAdapter ==
    /\ \E e \in FieldValues, t \in FieldValues, rest \in OtherFields, d \in Dev :
          probe = [a |-> [EmployeeID |-> e, PunchTime |-> t] @@ rest,
                   b |-> [employee_id |-> e, punch_time |-> t] @@ rest,
                   device_id |-> d, adapted |-> <<>>, people |-> <<>>]
    /\ impl = "api"
    /\ Stores

\* The loops of get_attendance_records and of get_employees over the raw
\* records <<a, b>>
Adapt ==
    /\ probe.a # <<>> /\ probe.adapted = <<>>
    /\ probe' = [probe EXCEPT !.adapted = <<AdaptAttendance(probe.a, probe.device_id),
                                            AdaptAttendance(probe.b, probe.device_id)>>,
                              !.people = <<AdaptEmployee(probe.a), AdaptEmployee(probe.b)>>]
    /\ UNCHANGED <<impl, now, device, employees, emprow, attendance, synclog, run, nrun, attdata, batch, nadmin, nposts, task, operation_status, asyncop>>

NextAdapter == Adapt

SpecAdapter == InitAdapter /\ [][NextAdapter]_vars

\* The Celery task of one device, its retries included; one worker.
NextTask ==
    \/ \E d \in Dev : TaskDelay(d)
    \/ TaskExecute(1)
    \/ \E r \in Run, resp \in Responses : FetchAttendance(r, resp)
    \/ \E r \in Run : CheckRecord(r)
    \/ \E r \in Run : CreateRecord(r)
    \/ \E r \in Run : FinishAttendance(r)
    \/ TaskReturn(1)

SpecTask == InitApi /\ [][NextTask]_vars

\* TempDLL/tasks.py alone, from a time at which both devices synced more
\* than two hours ago: retry_failed_syncs comes round to a device again.
InitTemp ==
    /\ probe = NoProbe
    /\ impl = "temp"
    /\ now = 0
    /\ device = [d \in Dev |->
                    [name |-> "clock", ip_address |-> d, port |-> DefaultPort,
                     is_active |-> TRUE, last_sync |-> IF d = 1 THEN 0 - 3 ELSE 0 - 5]]
    /\ employees = {1}
    /\ emprow = [e \in {1} |-> [name |-> 1, department |-> 1, position |-> 1]]
    /\ attendance = EmptyBag
    /\ synclog = [p \in Pass |-> <<>>]
    /\ run = [r \in Run |-> IdleRun]
    /\ nrun = 0
    /\ attdata = {}
    /\ batch = NoBatch
    /\ nadmin = 0
    /\ nposts = 0
    /\ task = NoTask
    /\ operation_status = [id \in OpId |-> [status |-> "absent", progress |-> 0, result |-> "absent"]]
    /\ asyncop = [n |-> 0,
                  op |-> [id \in OpId |-> [pc |-> "none", wrapper |-> "none", endpoint |-> "none",
                                          step |-> 0, connected |-> FALSE, success |-> FALSE]],
                  answer |-> [id |-> 0, status |-> "none", progress |-> 0, result |-> "absent"]]

\* Complete syncs alone; the second device is active or not.
InitComplete ==
    /\ probe = NoProbe
    /\ impl = "api"
    /\ now = 1
    /\ \E active \in BOOLEAN :
          device = [d \in Dev |->
                      [name |-> "clock", ip_address |-> d, port |-> DefaultPort,
                       is_active |-> (d = 1 \/ active), last_sync |-> IF d = 1 THEN NoneVal ELSE 0]]
    /\ employees = {1}
    /\ emprow = [e \in {1} |-> [name |-> 1, department |-> 1, position |-> 1]]
    /\ attendance = EmptyBag
    /\ synclog = [p \in Pass |-> <<>>]
    /\ run = [r \in Run |-> IdleRun]
    /\ nrun = 0
    /\ attdata = {}
    /\ batch = NoBatch
    /\ nadmin = 0
    /\ nposts = 0
    /\ task = NoTask
    /\ operation_status = [id \in OpId |-> [status |-> "absent", progress |-> 0, result |-> "absent"]]
    /\ asyncop = [n |-> 0,
                  op |-> [id \in OpId |-> [pc |-> "none", wrapper |-> "none", endpoint |-> "none",
                                          step |-> 0, connected |-> FALSE, success |-> FALSE]],
                  answer |-> [id |-> 0, status |-> "none", progress |-> 0, result |-> "absent"]]

NextComplete ==
    \/ \E kind \in {"command", "celery"} : CompleteStart(kind)
    \/ \E r \in Run : CompleteDispatch(r)
    \/ CompleteCollect
    \/ CompleteNext
    \/ \E r \in Run, resp \in EmpResponses : FetchEmployees(r, resp)
    \/ \E r \in Run : UpsertEmployees(r)
    \/ \E r \in Run, resp \in Responses : FetchAttendance(r, resp)
    \/ \E r \in Run : CheckRecord(r)
    \/ \E r \in Run : CreateRecord(r)
    \/ \E r \in Run : FinishAttendance(r)

SpecComplete == InitComplete /\ [][NextComplete]_vars

\* retry_failed_syncs alone; the second device has synced long ago, has
\* just synced, or has never synced.
InitRetry ==
    /\ probe = NoProbe
    /\ impl = "temp"
    /\ now = 0
    /\ \E ls \in {NoneVal, 0 - 5, 0} :
          device = [d \in Dev |->
                      [name |-> "clock", ip_address |-> d, port |-> DefaultPort,
                       is_active |-> TRUE, last_sync |-> IF d = 1 THEN 0 - 3 ELSE ls]]
    /\ employees = {1}
    /\ emprow = [e \in {1} |-> [name |-> 1, department |-> 1, position |-> 1]]
    /\ attendance = EmptyBag
    /\ synclog = [p \in Pass |-> <<>>]
    /\ run = [r \in Run |-> IdleRun]
    /\ nrun = 0
    /\ attdata = {}
    /\ batch = NoBatch
    /\ nadmin = 0
    /\ nposts = 0
    /\ task = NoTask
    /\ operation_status = [id \in OpId |-> [status |-> "absent", progress |-> 0, result |-> "absent"]]
    /\ asyncop = [n |-> 0,
                  op |-> [id \in OpId |-> [pc |-> "none", wrapper |-> "none", endpoint |-> "none",
                                          step |-> 0, connected |-> FALSE, success |-> FALSE]],
                  answer |-> [id |-> 0, status |-> "none", progress |-> 0, result |-> "absent"]]

NextRetry ==
    \/ RetryStart
    \/ RetryDispatch(1)
    \/ RetryCollect
    \/ \E r \in Run, resp \in TempResponses : TempFetch(r, resp)
    \/ \E r \in Run : TempCommit(r)

SpecRetry == InitRetry /\ [][NextRetry]_vars

\* The async operations of the two wrappers alone.
NextAsync ==
    \/ \E w \in {"sim", "real"}, endpoint \in {"get-employees", "get-attendance"} :
          AsyncStart(w, endpoint)
    \/ \E id \in OpId : AsyncBegin(id)
    \/ \E id \in OpId : SimStep(id)
    \/ \E id \in OpId : SimComplete(id)
    \/ \E id \in OpId, outcome \in SdkOutcomes : RealConnect(id, outcome)
    \/ \E id \in OpId, outcome \in SdkOutcomes : RealFetch(id, outcome)
    \/ \E id \in OpId, outcome \in SdkOutcomes : RealFinish(id, outcome)
    \/ \E id \in OpId : AsyncStatus(id)

SpecAsync == InitApi /\ [][NextAsync]_vars

NextTemp ==
    \/ \E d \in Dev : StartRetry(1, d)
    \/ \E r \in Run, resp \in TempResponses : TempFetch(r, resp)
    \/ \E r \in Run : TempCommit(r)
    \/ TempBatchCall

SpecTemp == InitTemp /\ [][NextTemp]_vars

\* ---------------------------------------------------- what a step did
\* Process r enters an attendance pass in this step.
Enters(r) == run[r].pc \in {"idle", "done"} /\ run'[r].pc = "fetch" /\ run'[r].kind = "attendance"

\* Process r's pass returns in this step.
Returns(r) == run[r].pc \notin {"idle", "done"} /\ run'[r].pc = "done"

\* Process r's attendance pass is under way.
Running(r) == run[r].pc \notin {"idle", "done"} /\ run[r].kind = "attendance"

\* The record a pass has come to in its loop.
HeadRec(r) == Head(run[r].records)
HeadEmp(r) == Get(HeadRec(r), "EmployeeID")
HeadPunch(r) == Get(HeadRec(r), "PunchTime")

Handling(r) == run[r].pc \in {"loop", "create"} /\ run[r].kind = "attendance"

\* The step finishes with the record at hand.
Consumes(r) == Handling(r) /\ run'[r].records = Tail(run[r].records)

Present(v) == v # NoneVal /\ v # 0
Malformed(rec) == ~(Present(Get(rec, "EmployeeID")) /\ Present(Get(rec, "PunchTime")))
TempMalformed(rec) == ~(Present(Get(rec, "EmployeeId")) /\ Present(Get(rec, "RecordTime")))

\* The number of stored attendance records with the key.
KeyRows(att, emp, punch, ip) ==
    BagCardinality([row \in {x \in BagToSet(att) :
                                x.employee = emp /\ x.punch_time = punch /\ x.device_ip = ip}
                      |-> att[row]])

\* A device row without its cursor.
Frame(row) == [row EXCEPT !.last_sync = NoneVal]

\* ------------------------------------------------------------ claims
\* C1: over passes that do not overlap, a device's last_sync never decreases
\* (None counting as before every time); the window end of a pass is the
\* clock reading taken when the pass started, and a pass that returns
\* successfully leaves last_sync equal to that window end.
C1_CursorMonotone ==
    [][ /\ \A d \in Dev : device'[d].last_sync >= device[d].last_sync
        /\ \A r \in Run :
              /\ Enters(r) => run'[r].end_time = now'
              /\ (Returns(r) /\ run[r].kind = "attendance" /\ run'[r].outcome = "success")
                    => device'[run[r].dev].last_sync = run[r].end_time ]_vars

\* The second pass, on a device whose first pass had succeeded, has
\* succeeded at a later clock reading and moved last_sync there.
C1_Witness ==
    \E r \in Run :
        /\ run[r].pc = "done" /\ run[r].id = 2 /\ run[r].kind = "attendance"
        /\ run[r].outcome = "success"
        /\ device[run[r].dev].last_sync = 2 /\ now = 2
        /\ nrun = 2 /\ impl # "temp"
        /\ Len(synclog[1]) = 1 /\ synclog[1][1].device = run[r].dev
        /\ synclog[1][1].success /\ synclog[1][1].sync_type = "attendance"

\* C2: while a pass whose fetch failed is under way, no step changes the
\* device's last_sync.
C2_FailedFetchFreezesCursor ==
    [][ \A r \in Run :
          (Running(r) /\ run[r].transport = "fail")
            => device'[run[r].dev].last_sync = device[run[r].dev].last_sync ]_vars

\* C3: when a pass comes to a record (employee identifier and punch time
\* given) that storage already holds for its device, as when the transport
\* hands a pass the record the pass before has stored, the step does not
\* count the record and leaves exactly one stored record for it.
C3_RepeatedRecordStoredOnce ==
    [][ \A r \in Run :
          (Handling(r) /\ ~Malformed(HeadRec(r))
             /\ KeyRows(attendance, HeadEmp(r), HeadPunch(r), run[r].copy.ip_address) >= 1)
            => /\ run'[r].synced_count = run[r].synced_count
               /\ KeyRows(attendance', HeadEmp(r), HeadPunch(r), run[r].copy.ip_address) = 1 ]_vars

\* The first pass on a device stored and counted one record; the second
\* pass on the device has met the record again, has succeeded and has
\* counted nothing; one record is stored.
C3_Witness ==
    \E r \in Run :
        /\ run[r].pc = "done" /\ run[r].id = 2 /\ run[r].kind = "attendance"
        /\ run[r].outcome = "success" /\ run[r].result[1] = 0
        /\ run[r].skipped \in {{"exists"}, {"rejected"}}
        /\ Len(synclog[1]) = 1 /\ synclog[1][1].device = run[r].dev
        /\ synclog[1][1].success /\ synclog[1][1].records_synced = 1
        /\ BagCardinality(attendance) = 1
        /\ KeyRows(attendance, 1, 1, device[run[r].dev].ip_address) = 1

\* C4: in every reachable state, however passes (two on one device among
\* them, exists-checks and creates interleaved) and attendance POST requests
\* interleave, no two stored attendance records share employee, punch_time
\* and device_ip.
C4_UniqueKey ==
    \A row \in BagToSet(attendance) :
        KeyRows(attendance, row.employee, row.punch_time, row.device_ip) = 1

\* Two passes on one device both found the record absent; one stored it and
\* the create of the other was rejected.
C4_Witness ==
    /\ impl = "api" /\ nposts = 0
    /\ \E r, q \in Run :
          /\ r # q /\ run[r].dev = run[q].dev
          /\ "rejected" \in run[r].skipped
          /\ run[q].synced_count = 1 \/ (run[q].pc = "done" /\ run[q].result[1] = 1)
    /\ BagCardinality(attendance) = 1

C6_UnknownEmployeeDropped ==
    [][ \A r \in Run :
          /\ (Handling(r) /\ ~Malformed(HeadRec(r)) /\ HeadEmp(r) \notin employees)
               => /\ attendance' = attendance
                  /\ run'[r].synced_count = run[r].synced_count
                  /\ run'[r].pc \in {"create", "loop", "save"}
                  /\ run[r].pc = "create" => Consumes(r)
          /\ (run[r].pc \in {"save", "commit"} /\ Returns(r))
               => /\ run'[r].outcome = "success"
                  /\ device'[run[r].dev].last_sync = run[r].end_time
          /\ (run[r].pc = "commit" /\ Returns(r))
               => \A x \in attdata' : x.employee \in employees ]_vars

\* A pass has dropped a record of an employee that is not stored, has
\* stored the other record of its batch, has succeeded and has moved
\* last_sync to its window end.
C6_Witness ==
    \E r \in Run :
        /\ run[r].pc = "done" /\ run[r].kind = "attendance" /\ run[r].outcome = "success"
        /\ run[r].skipped = {"no_employee"} /\ run[r].result = <<1, "">>
        /\ 2 \notin employees
        /\ \A row \in BagToSet(attendance) : row.employee = 1
        /\ device[run[r].dev].last_sync = now

C8_AliasesAgree ==
    probe.adapted # <<>> => probe.adapted[1] = probe.adapted[2]

\* C8 (amended): they do when the punch time value is not empty and the
\* records carry no non-empty EmployeeId field.
C8_AliasesAgreeNonEmpty ==
    (probe.adapted # <<>> /\ Truthy(probe.a.PunchTime) /\ ~Truthy(Get(probe.a, "EmployeeId")))
      => probe.adapted[1] = probe.adapted[2]

\* Two such records with non-empty values have been adapted, to a canonical
\* record that carries the values.
C8_Witness ==
    /\ probe.adapted # <<>>
    /\ probe.a.EmployeeID = 1 /\ probe.a.PunchTime = 2 /\ "verify_type" \in DOMAIN probe.a
    /\ "EmployeeID" \notin DOMAIN probe.b /\ probe.b.employee_id = 1 /\ probe.b.punch_time = 2
    /\ probe.adapted[1] = probe.adapted[2]
    /\ probe.adapted[2].EmployeeID = 1 /\ probe.adapted[2].PunchTime = 2

\* C9: a pass that returns (attendance or employees, whatever its outcome)
\* leaves exactly one SyncLog row, for its device and its sync type, whose
\* success flag is its outcome and whose completed_at is set.
C9_OneFinalizedLog ==
    [][ \A r \in Run :
          Returns(r)
            => LET rows == synclog'[run[r].id]
               IN /\ Len(rows) = 1
                  /\ rows[1].device = run[r].dev
                  /\ rows[1].sync_type = run[r].kind
                  /\ rows[1].success = (run'[r].outcome = "success")
                  /\ rows[1].completed ]_vars

\* C10: no step of a pass changes a field of a device other than last_sync
\* (so what the administrator wrote stays), and no step removes a device.
C10_PassWritesOnlyCursor ==
    [][ nadmin' = nadmin
          => /\ DOMAIN device' = DOMAIN device
             /\ \A d \in Dev : Frame(device'[d]) = Frame(device[d]) ]_vars

\* C11: no step of a sync pass removes or changes a stored record: every
\* AttendanceRecord row and every AttendanceData row of a state is a row of
\* the next state, with every field as it was.
C11_RecordsOnlyAdded ==
    [][ /\ attendance \sqsubseteq attendance'
        /\ attdata \subseteq attdata' ]_vars

\* C12: in no reachable state are two attendance passes for one device
\* under way together.
C12_OnePassPerDevice ==
    \A r, q \in Run :
        (r # q /\ Running(r) /\ Running(q)) => run[r].dev # run[q].dev

\* C13: also when passes for one device overlap, no step moves a device's
\* last_sync backwards.
C13_CursorMonotoneOverlap ==
    [][ \A d \in Dev : device'[d].last_sync >= device[d].last_sync ]_vars

\* C14: an attendance pass whose fetch failed returns the count 0 with a
\* non-empty error, has stored no attendance record, and leaves one SyncLog
\* row with success = false and that error as its message.
C14_FailedFetchReported ==
    [][ \A r \in Run :
          (Returns(r) /\ run[r].kind = "attendance" /\ run'[r].transport = "fail")
            => /\ run'[r].result[1] = 0
               /\ run'[r].result[2] # ""
               /\ run[r].synced_count = 0
               /\ attendance' = attendance /\ attdata' = attdata
               /\ Len(synclog'[run[r].id]) = 1
               /\ ~synclog'[run[r].id][1].success
               /\ synclog'[run[r].id][1].error_message = run'[r].result[2] ]_vars

\* The number of AttendanceData keys of the second table that the first lacks.
NewKeys(old, new) == Cardinality({TempKey(x) : x \in new} \ {TempKey(x) : x \in old})

\* C15: the count a successful attendance pass returns, and the
\* records_synced of its SyncLog row, is the number of records the pass has
\* added to storage.
C15_CountIsNewRows ==
    [][ \A r \in Run :
          (Returns(r) /\ run[r].kind = "attendance" /\ run'[r].outcome = "success")
            => /\ run[r].pc = "save"
                    => /\ run'[r].result[1] = BagCardinality(attendance') - run[r].before
                       /\ Len(synclog'[run[r].id]) = 1
                       /\ synclog'[run[r].id][1].records_synced = run'[r].result[1]
               /\ run[r].pc = "commit"
                    => run'[r].result[1] = NewKeys(attdata, attdata') ]_vars

\* The default lookback of the service variant.
Lookback == IF impl = "temp" THEN LookbackTemp ELSE LookbackApi

\* C16: a pass that starts takes the clock reading as its window end and,
\* unless it is a full-history pass with its fixed start, the device's stored
\* last_sync as its window start (the clock reading minus the default
\* lookback when last_sync is not set); and last_sync changes only when a
\* pass returns successfully, to the window end of that pass: so the window
\* of an incremental pass starts where the last successful one ended.
C16_WindowFromCursor ==
    [][ /\ \A r \in Run :
              Enters(r)
                => /\ run'[r].end_time = now'
                   /\ \/ impl = "api" /\ run'[r].start_time = FullHistoryStart
                      \/ run'[r].start_time =
                            IF device[run'[r].dev].last_sync # NoneVal
                            THEN device[run'[r].dev].last_sync
                            ELSE now' - Lookback
        /\ \A d \in Dev :
              device'[d].last_sync # device[d].last_sync
                => \E r \in Run : /\ Returns(r) /\ run[r].dev = d
                                  /\ run'[r].outcome = "success"
                                  /\ device'[d].last_sync = run[r].end_time ]_vars

\* C17: a step of a pass that changes last_sync is the last step of the
\* pass, taken when no fetched record is left to process (in TempDLL: the
\* step that commits the records and the cursor together), and the pass
\* returns successfully; a pass that returns otherwise leaves the devices
\* as they were.
C17_CursorAfterRecords ==
    [][ \A r \in Run :
          /\ (Running(r) /\ device'[run[r].dev].last_sync # device[run[r].dev].last_sync)
               => /\ run[r].pc \in {"save", "commit"}
                  /\ run[r].pc = "save" => run[r].records = <<>>
                  /\ run[r].pc = "commit"
                       => \A k \in 1..Len(run[r].records) :
                             (~TempMalformed(run[r].records[k])
                                /\ run[r].records[k].EmployeeId \in employees)
                               => \E x \in attdata' :
                                     /\ x.device = run[r].dev
                                     /\ x.employee = run[r].records[k].EmployeeId
                                     /\ x.punch_time = run[r].records[k].RecordTime
                  /\ Returns(r) /\ run'[r].outcome = "success"
                  /\ device'[run[r].dev].last_sync = run[r].end_time
          /\ (Running(r) /\ Returns(r) /\ run'[r].outcome # "success")
               => device' = device ]_vars

\* A pass has stored both records of its batch, then moved last_sync to its
\* window end and returned successfully.
C17_Witness ==
    \E r \in Run :
        /\ run[r].pc = "done" /\ run[r].kind = "attendance" /\ run[r].outcome = "success"
        /\ run[r].result = <<2, "">> /\ run[r].skipped = {}
        /\ BagCardinality(attendance) = 2
        /\ device[run[r].dev].last_sync = now

\* C18: an execution of sync_device_attendance_task that fails schedules at
\* most one retry; the task is executed at most 1 + max_retries times; and
\* once it has ended in failure no message of it is left to execute.
C18_BoundedRetries ==
    /\ task.scheduled <= 1
    /\ task.executions <= 1 + MaxRetries
    /\ task.state = "FAILURE" => task.msgs = <<>>

\* C19: an execution of the task whose pass fails has stored nothing and
\* leaves devices, attendance records and employees as they were, so the
\* retry starts from what the failed execution started from: its window
\* starts at the same stored last_sync (none of the device's records is
\* skipped); a pass that succeeds moves last_sync to its window end; and no
\* record is stored twice.
C19_RetryIdempotent ==
    [][ /\ \A r \in Run :
              /\ (Returns(r) /\ run[r].by = "task" /\ run'[r].result[2] # "")
                   => /\ run[r].synced_count = 0
                      /\ attendance' = attendance /\ employees' = employees
                      /\ device' = device
                      /\ device[run[r].dev] = run[r].copy
              /\ (Enters(r) /\ run'[r].by = "task")
                   => run'[r].start_time =
                         IF device[run'[r].dev].last_sync # NoneVal
                         THEN device[run'[r].dev].last_sync
                         ELSE now' - LookbackApi
              /\ (Returns(r) /\ run[r].by = "task" /\ run'[r].result[2] = "")
                   => device'[run[r].dev].last_sync = run[r].end_time
        /\ \A row \in BagToSet(attendance') :
              KeyRows(attendance', row.employee, row.punch_time, row.device_ip) = 1 ]_vars

\* The first execution of the task failed and was retried; the retry has
\* succeeded, stored the device's record once and moved last_sync to its
\* window end.
C19_Witness ==
    /\ task.state = "SUCCESS" /\ task.executions = 2
    /\ Len(synclog[1]) = 1 /\ ~synclog[1][1].success
    /\ Len(synclog[2]) = 1 /\ synclog[2][1].success /\ synclog[2][1].records_synced = 1
    /\ KeyRows(attendance, 1, 1, device[task.dev].ip_address) = 1
    /\ BagCardinality(attendance) = 1
    /\ device[task.dev].last_sync = now

\* C20: a transport operation of ZKAPIService hands every failure of the
\* wrapper service back as an error string: no pass ends its fetch on an
\* exception raised by the fetch.
C20_TransportNeverRaises ==
    [][ \A r \in Run :
          (run[r].pc = "fetch" /\ Returns(r)) => run'[r].outcome # "exception" ]_vars

\* The value of the first of the aliases that the raw record carries with a
\* non-empty value; NoneVal when it carries none.
RECURSIVE FirstNonEmpty(_, _)
FirstNonEmpty(raw, aliases) ==
    IF aliases = <<>> THEN NoneVal
    ELSE IF Present(Get(raw, Head(aliases))) THEN Get(raw, Head(aliases))
    ELSE FirstNonEmpty(raw, Tail(aliases))

\* The canonical field holds the first non-empty alias, or an empty or zero
\* value when no alias is non-empty (zero where the code names zero).
Resolved(v, raw, aliases, zero) ==
    IF FirstNonEmpty(raw, aliases) # NoneVal THEN v = FirstNonEmpty(raw, aliases)
    ELSE ~Present(v) /\ (zero => v = 0)

\* C21: each canonical field of an adapted record holds the value of the
\* first alias, in the fixed order of the field, that the raw record carries
\* with a non-empty value, and an empty or zero value when it carries none
\* (attendance: employee id, punch time, verify mode, status; employees: pin,
\* name, department, position).
C21_FirstAliasWins ==
    probe.adapted # <<>>
      => \A i \in 1..2 :
            LET raw == IF i = 1 THEN probe.a ELSE probe.b
                rec == probe.adapted[i]
                emp == probe.people[i]
            IN /\ Resolved(rec.EmployeeID, raw, <<"EmployeeID", "EmployeeId", "employee_id", "emp_code">>, FALSE)
               /\ Resolved(rec.PunchTime, raw, <<"PunchTime", "punch_time">>, FALSE)
               /\ Resolved(rec.VerificationMode, raw, <<"VerificationMode", "verify_type">>, TRUE)
               /\ Resolved(rec.Status, raw, <<"Status", "punch_state">>, TRUE)
               /\ Resolved(emp.pin, raw, <<"EmployeeId", "employee_id", "EmployeeID", "pin", "emp_code">>, FALSE)
               /\ Resolved(emp.name, raw, <<"Name", "name", "full_name">>, FALSE)
               /\ Resolved(emp.department, raw, <<"Department", "department">>, FALSE)
               /\ Resolved(emp.position, raw, <<"Position", "position">>, FALSE)

\* A raw record whose first alias is present but empty and whose second
\* alias is not has been adapted: the second alias is taken.
C21_Witness ==
    /\ probe.adapted # <<>>
    /\ probe.a.EmployeeID = 0 /\ Get(probe.a, "EmployeeId") = 2
    /\ probe.adapted[1].EmployeeID = 2
    /\ probe.adapted[2].EmployeeID = 2 /\ probe.b.employee_id = 0
    /\ probe.adapted[1].Status = 0

\* The pass of process r leaves the record at hand out although it is
\* well-formed and its employee is known: it is taken for a duplicate.
DuplicateSkip(r) ==
    /\ Consumes(r)
    /\ ~Malformed(HeadRec(r))
    /\ HeadEmp(r) \in employees
    /\ run'[r].synced_count = run[r].synced_count

\* C22: a record fetched from a device is left out as a duplicate only when
\* a record of the same employee and punch time that came from the same
\* device is stored, never because of a record that came from another
\* device (the stored device_id is the id of the device the record was
\* fetched from).
C22_DedupPerDevice ==
    [][\A r \in Run :
          DuplicateSkip(r)
            => \E row \in BagToSet(attendance) :
                  /\ row.employee = HeadEmp(r) /\ row.punch_time = HeadPunch(r)
                  /\ row.device_id = run[r].dev]_vars

\* The insert of the record at hand is about to fail: the pass has come to
\* create it, its employee is known, and a record with its key is stored.
InsertFails(r) ==
    /\ Handling(r) /\ run[r].pc = "create"
    /\ HeadEmp(r) \in employees
    /\ KeyRows(attendance, HeadEmp(r), HeadPunch(r), run[r].copy.ip_address) > 0

\* C23: when the insert of one record fails on the uniqueness constraint,
\* the pass leaves that record out and goes on with the next record of the
\* batch (or, after the last one, with the cursor write); a pass that has
\* left out a record for that reason still returns successfully with the
\* cursor of its device at the end of its window.
C23_RecordFailureSkipped ==
    [][\A r \in Run :
          /\ InsertFails(r) /\ run'[r] # run[r]
               => /\ attendance' = attendance
                  /\ run'[r].records = Tail(run[r].records)
                  /\ run'[r].synced_count = run[r].synced_count
                  /\ run'[r].pc = IF Tail(run[r].records) = <<>> THEN "save" ELSE "loop"
          /\ Running(r) /\ Returns(r) /\ "rejected" \in run[r].skipped
               => /\ run'[r].outcome = "success"
                  /\ run'[r].result = <<run[r].synced_count, "">>
                  /\ device'[run[r].dev].last_sync = run[r].end_time]_vars

\* A pass has returned successfully after the insert of one of its records
\* failed, with another record of its batch stored and the cursor moved.
C23_Witness ==
    \E r \in Run :
        /\ run[r].pc = "done" /\ run[r].kind = "attendance"
        /\ "rejected" \in run[r].skipped
        /\ run[r].outcome = "success" /\ run[r].result[1] = 1
        /\ device[run[r].dev].last_sync = now

\* The employee pass of process r returns successfully in this step.
EmployeesSynced(r) ==
    /\ run[r].kind = "employees" /\ run[r].pc = "upsert"
    /\ run'[r].pc = "done" /\ run'[r].outcome = "success"

\* The last of the fetched employees that carries the identifier.
LastFetched(recs, id) ==
    recs[CHOOSE k \in 1..Len(recs) :
            /\ recs[k].pin = id
            /\ \A j \in 1..Len(recs) : recs[j].pin = id => j <= k]

\* Every fetched employee with a non-empty identifier is stored with the
\* name, department and position it was last fetched with.
AllStored(ids, rows, recs) ==
    \A k \in 1..Len(recs) :
        Present(recs[k].pin)
          => /\ recs[k].pin \in ids
             /\ rows[recs[k].pin] =
                   [name |-> LastFetched(recs, recs[k].pin).name,
                    department |-> LastFetched(recs, recs[k].pin).department,
                    position |-> LastFetched(recs, recs[k].pin).position]

\* C24: when an employee pass returns successfully, every fetched employee
\* with a non-empty identifier is stored once, under that identifier, with
\* the name, department and position of the fetch; and a pass over data
\* that is stored like that already leaves the employees as they were.
C24_EmployeesUpserted ==
    [][\A r \in Run :
          EmployeesSynced(r)
            => /\ AllStored(employees', emprow', run[r].records)
               /\ AllStored(employees, emprow, run[r].records)
                    => employees' = employees /\ emprow' = emprow]_vars

\* The counts of the passes of the run that succeeded, added up.
RECURSIVE SumOfSucceeded(_)
SumOfSucceeded(report) ==
    IF report = <<>> THEN 0
    ELSE (IF Head(report).ok THEN Head(report).count ELSE 0) + SumOfSucceeded(Tail(report))

\* C25: when a run over all active devices has ended, the total it reports
\* is the sum of the counts returned by those of its passes that succeeded.
C25_TotalIsSum ==
    (batch.pc = "done" /\ batch.kind \in {"command", "celery"})
      => batch.total = SumOfSucceeded(batch.report)

\* C26: in a complete sync, an attendance pass is entered only in the
\* attendance phase of the run, with no employee pass of the run under way.
C26_EmployeesBeforeAttendance ==
    [][\A r \in Run :
          (Enters(r) /\ run'[r].by = "complete")
            => /\ batch.phase = "attendance"
               /\ \A q \in Run :
                     (run[q].by = "complete" /\ run[q].kind = "employees")
                       => run[q].pc \in {"idle", "done"}]_vars

\* The active devices whose last successful sync is more than two hours
\* before t, or that have never synced.
DueForRetry(dev, t) ==
    {d \in Dev : /\ dev[d].is_active
                 /\ (dev[d].last_sync = NoneVal \/ dev[d].last_sync < t - RetryCutoff)}

\* C27: retry_failed_syncs lists exactly the active devices without a
\* successful sync in the last two hours (an older one, or none at all),
\* enters a pass for each listed device in turn, and goes on to the next
\* only when that pass has returned.
C27_RetriesTheStale ==
    [][ /\ (batch.pc = "idle" /\ batch'.kind = "retry")
           => {batch'.queue[k] : k \in 1..Len(batch'.queue)} = DueForRetry(device, now')
        /\ \A r \in Run :
              (Enters(r) /\ run'[r].by = "retry")
                => batch.queue # <<>> /\ run'[r].dev = Head(batch.queue)
        /\ (batch.kind = "retry" /\ batch'.queue # batch.queue)
           => /\ batch.cur # 0
              /\ run[batch.cur].pc = "done" /\ run[batch.cur].dev = Head(batch.queue)
              /\ batch'.queue = Tail(batch.queue) ]_vars

\* The moves of a recorded status that the life of an operation allows.
StatusMoves ==
    { <<"absent", "pending">>, <<"pending", "processing">>,
      <<"processing", "completed">>, <<"processing", "failed">> }

\* C28: the status recorded for an operation id changes only from PENDING
\* (recorded when the id is handed out) to PROCESSING and from PROCESSING
\* to COMPLETED or FAILED; an entry that is COMPLETED or FAILED does not
\* change any more; an entry holds a result exactly when it is COMPLETED;
\* every id handed out has an entry, and no status query for such an id
\* answers "Operation not found".
C28_StatusLifecycle ==
    [][ /\ \A id \in OpId :
              /\ operation_status'[id].status # operation_status[id].status
                   => <<operation_status[id].status, operation_status'[id].status>> \in StatusMoves
              /\ operation_status[id].status \in {"completed", "failed"}
                   => operation_status'[id] = operation_status[id]
              /\ operation_status'[id].result = "data"
                   <=> operation_status'[id].status = "completed"
              /\ id <= asyncop'.n => operation_status'[id].status # "absent"
        /\ asyncop'.answer.status # "Operation not found"
        /\ asyncop'.answer.result = "data" <=> asyncop'.answer.status = "completed" ]_vars

\* One operation has completed and its status has been asked for and
\* answered with the result, after another operation failed.
C28_Witness ==
    \E id, other \in OpId :
        /\ operation_status[id].status = "completed"
        /\ asyncop.answer = [id |-> id, status |-> "completed", progress |-> 100, result |-> "data"]
        /\ operation_status[other].status = "failed"

\* C29: the progress recorded for an operation does not decrease in a step
\* that leaves the operation not failed, and a progress of 100 is recorded,
\* and answered to a status query, only with status COMPLETED and a
\* result.
C29_ProgressMonotone ==
    [][ /\ \A id \in OpId :
              /\ operation_status'[id].status # "failed"
                   => operation_status'[id].progress >= operation_status[id].progress
              /\ operation_status'[id].progress = 100
                   => /\ operation_status'[id].status = "completed"
                      /\ operation_status'[id].result = "data"
        /\ asyncop'.answer.progress = 100
             => asyncop'.answer.status = "completed" /\ asyncop'.answer.result = "data" ]_vars

\* C30: an operation of the real-SDK wrapper that is COMPLETED or FAILED
\* has no connection left open: after a successful ConnectDevice,
\* DisconnectDevice was called before the final status was recorded.
C30_DisconnectBeforeEnd ==
    \A id \in OpId :
        operation_status[id].status \in {"completed", "failed"} => ~asyncop.op[id].connected

====
